---------------------------- MODULE Spec2Model ----------------------------
(***************************************************************************)
(* A model of package_statistics.py: the Debian "Contents" index           *)
(* aggregator (parse_contents_file) and the orchestration of main.         *)
(*                                                                         *)
(* Text is modelled as sequences of one-character strings, so that         *)
(* str.strip, str.split and str.split(',') are computed, not assumed.      *)
(* A Counter is modelled as the sequence of its items in insertion order   *)
(* (the order Python dictionaries enumerate).                              *)
(***************************************************************************)
EXTENDS Integers, Sequences, FiniteSets, TLC

VARIABLES
    file,                \* the lines of the decompressed Contents file
    pc,                  \* parse_contents_file: "idle", "reading", "returned", "raised"
    idx,                 \* number of lines of the file already consumed by the loop
    package_file_count,  \* the Counter local to the running call
    top_packages,        \* the value returned by the last completed call
    returned,            \* the values returned by the completed calls, in order
    architecture,        \* main: the command line argument
    architectures,       \* main: the list returned by get_supported_architectures
    mpc,                 \* main: the stage about to run
    disk,                \* main: which of the two files exist on disk
    written,             \* main: files created by download_file / decompress_gzip
    stages,              \* main: the stages executed so far, in order
    pending,             \* main: an exception is propagating through the finally block
    exit_status          \* main: the process exit status once mpc = "exited"

parseVars == <<file, pc, idx, package_file_count, top_packages, returned>>
mainVars == <<architecture, architectures, mpc, disk, written, stages, pending, exit_status>>
vars == <<parseVars, mainVars>>

---------------------------------------------------------------------------
(* Bounds of the model *)

MaxLines == 3

MaxCalls == 2

---------------------------------------------------------------------------
(* Python string operations *)

Whitespace == {" ", "\t", "\n"}

RECURSIVE LStrip(_)
LStrip(s) ==
    IF s # <<>> /\ Head(s) \in Whitespace THEN LStrip(Tail(s)) ELSE s

RECURSIVE RStrip(_)
RStrip(s) ==
    IF s # <<>> /\ s[Len(s)] \in Whitespace
    THEN RStrip(SubSeq(s, 1, Len(s) - 1))
    ELSE s

\* str.strip()
Strip(s) == RStrip(LStrip(s))

RECURSIVE SplitWsFrom(_, _, _, _)
SplitWsFrom(s, i, cur, acc) ==
    IF i > Len(s)
    THEN IF cur = <<>> THEN acc ELSE Append(acc, cur)
    ELSE IF s[i] \in Whitespace
         THEN SplitWsFrom(s, i + 1, <<>>, IF cur = <<>> THEN acc ELSE Append(acc, cur))
         ELSE SplitWsFrom(s, i + 1, Append(cur, s[i]), acc)

\* str.split(): runs of whitespace separate, empty strings are dropped
SplitWs(s) == SplitWsFrom(s, 1, <<>>, <<>>)

RECURSIVE SplitSepFrom(_, _, _, _, _)
SplitSepFrom(s, sep, i, cur, acc) ==
    IF i > Len(s)
    THEN Append(acc, cur)
    ELSE IF s[i] = sep
         THEN SplitSepFrom(s, sep, i + 1, <<>>, Append(acc, cur))
         ELSE SplitSepFrom(s, sep, i + 1, Append(cur, s[i]), acc)

\* str.split(sep) for a one-character sep: empty strings are kept
SplitSep(s, sep) == SplitSepFrom(s, sep, 1, <<>>, <<>>)

RECURSIVE SplitSepDropEmptyFrom(_, _, _, _, _)
SplitSepDropEmptyFrom(s, sep, i, cur, acc) ==
    IF i > Len(s)
    THEN IF cur = <<>> THEN acc ELSE Append(acc, cur)
    ELSE IF s[i] = sep
         THEN SplitSepDropEmptyFrom(s, sep, i + 1, <<>>,
                                    IF cur = <<>> THEN acc ELSE Append(acc, cur))
         ELSE SplitSepDropEmptyFrom(s, sep, i + 1, Append(cur, s[i]), acc)

\* a split that filters the empty tokens out
SplitPackagesDropEmpty(field) == SplitSepDropEmptyFrom(field, ",", 1, <<>>, <<>>)

\* parts[1].split(',')
SplitPackages(field) == SplitSep(field, ",")

\* line.strip().split()
SplitLine(line) == SplitWs(Strip(line))

---------------------------------------------------------------------------
(* collections.Counter, as the sequence of its (key, count) items *)

Counter == <<>>

Keys(counter) == {counter[i][1] : i \in 1..Len(counter)}

IndexOf(counter, key) == CHOOSE i \in 1..Len(counter) : counter[i][1] = key

\* counter[key], with Counter.__missing__ giving 0
Get(counter, key) ==
    IF key \in Keys(counter) THEN counter[IndexOf(counter, key)][2] ELSE 0

\* counter[key] += 1: a new key is inserted last, an old one keeps its place
Increment(counter, key) ==
    IF key \in Keys(counter)
    THEN [counter EXCEPT ![IndexOf(counter, key)] = <<key, @[2] + 1>>]
    ELSE Append(counter, <<key, 1>>)

RECURSIVE CountEach(_, _)
CountEach(counter, packages) ==
    IF packages = <<>> THEN counter
    ELSE CountEach(Increment(counter, Head(packages)), Tail(packages))

RECURSIVE Dedup(_)
Dedup(packages) ==
    IF packages = <<>> THEN <<>>
    ELSE LET rest == Dedup(SubSeq(packages, 1, Len(packages) - 1))
             last == packages[Len(packages)]
         IN IF \E i \in 1..Len(rest) : rest[i] = last THEN rest ELSE Append(rest, last)

\* counting each package once per line
CountPackagesOncePerLine(counter, packages) == CountEach(counter, Dedup(packages))

\* for package in packages: package_file_count[package] += 1
CountPackages(counter, packages) == CountEach(counter, packages)

RemoveAt(s, i) == SubSeq(s, 1, i - 1) \o SubSeq(s, i + 1, Len(s))

MaxCount(counter) ==
    CHOOSE m \in {counter[i][2] : i \in 1..Len(counter)} :
        \A i \in 1..Len(counter) : counter[i][2] <= m

FirstWithCount(counter, m) ==
    CHOOSE i \in 1..Len(counter) :
        /\ counter[i][2] = m
        /\ \A j \in 1..(i - 1) : counter[j][2] # m

LastWithCount(counter, m) ==
    CHOOSE i \in 1..Len(counter) :
        /\ counter[i][2] = m
        /\ \A j \in (i + 1)..Len(counter) : counter[j][2] # m

\* the items by decreasing count, equal counts in insertion order, cut at n
RECURSIVE NLargest(_, _)
NLargest(counter, n) ==
    IF n <= 0 \/ counter = <<>> THEN <<>>
    ELSE LET i == FirstWithCount(counter, MaxCount(counter))
         IN <<counter[i]>> \o NLargest(RemoveAt(counter, i), n - 1)

\* the same with equal counts in reverse insertion order
RECURSIVE NLargestLastFirst(_, _)
NLargestLastFirst(counter, n) ==
    IF n <= 0 \/ counter = <<>> THEN <<>>
    ELSE LET i == LastWithCount(counter, MaxCount(counter))
         IN <<counter[i]>> \o NLargestLastFirst(RemoveAt(counter, i), n - 1)

Prefix(s, n) == SubSeq(s, 1, IF n < Len(s) THEN n ELSE Len(s))

\* the whole ranking, with no cut at n
MostCommonUncut(counter, n) == NLargest(counter, Len(counter))

\* the first n items in insertion order, unsorted
MostCommonUnsorted(counter, n) == Prefix(counter, n)

\* the first n items in insertion order, then sorted
MostCommonCutFirst(counter, n) == NLargest(Prefix(counter, n), n)

\* equal counts ranked last-inserted first
MostCommonLastFirst(counter, n) == NLargestLastFirst(counter, n)

\* Counter.most_common(n): heapq.nlargest(n, items, key=count), which is
\* sorted(items, key=count, reverse=True)[:n], a stable sort
most_common(counter, n) == NLargest(counter, n)

TopN == 10

---------------------------------------------------------------------------
(* parse_contents_file *)

\* parts[i] raises IndexError (i a non-negative Python index)
IndexError(parts, i) == ~(i < Len(parts))

\* parts[i], Python indices counting from 0
Item(parts, i) == parts[i + 1]

\* a guard that lets single-field lines through
HasAField(parts) == Len(parts) >= 1

\* if len(parts) >= 2
HasTwoFields(parts) == Len(parts) >= 2

\* the loop body raises on this line
LineRaises(line) ==
    LET parts == SplitLine(line)
    IN HasTwoFields(parts) /\ IndexError(parts, 1)

\* the loop body: the Counter after one more line
CountLine(counter, line) ==
    LET parts == SplitLine(line)
    IN IF HasTwoFields(parts) /\ ~IndexError(parts, 1)
       THEN CountPackages(counter, SplitPackages(Item(parts, 1)))
       ELSE counter

RECURSIVE CountLines(_, _)
CountLines(counter, lines) ==
    IF lines = <<>> THEN counter
    ELSE CountLines(CountLine(counter, Head(lines)), Tail(lines))

\* parse_contents_file as a function of the file's lines (no line raising)
parse_contents_file(lines) == most_common(CountLines(Counter, lines), TopN)

\* a call that keeps the Counter of the previous call
CallKeepingCounter ==
    /\ pc \in {"idle", "returned"}
    /\ Len(returned) < MaxCalls
    /\ pc' = "reading"
    /\ idx' = 0
    /\ UNCHANGED <<file, package_file_count, top_packages, returned, mainVars>>

\* package_file_count = Counter(); open(file_path, 'r')
Call ==
    /\ pc \in {"idle", "returned"}
    /\ Len(returned) < MaxCalls
    /\ pc' = "reading"
    /\ idx' = 0
    /\ package_file_count' = Counter
    /\ UNCHANGED <<file, top_packages, returned, mainVars>>

\* one iteration of "for line in file"
ReadLine ==
    /\ pc = "reading"
    /\ idx < Len(file)
    /\ idx' = idx + 1
    /\ IF LineRaises(file[idx + 1])
       THEN /\ pc' = "raised"
            /\ UNCHANGED package_file_count
       ELSE /\ pc' = pc
            /\ package_file_count' = CountLine(package_file_count, file[idx + 1])
    /\ UNCHANGED <<file, top_packages, returned, mainVars>>

\* the file is exhausted: top_packages = most_common(10); return top_packages
Return ==
    /\ pc = "reading"
    /\ idx = Len(file)
    /\ pc' = "returned"
    /\ top_packages' = most_common(package_file_count, TopN)
    /\ returned' = Append(returned, top_packages')
    /\ UNCHANGED <<file, idx, package_file_count, mainVars>>

---------------------------------------------------------------------------
(* The input files of the model *)

RECURSIVE Join(_, _)
Join(tokens, sep) ==
    IF tokens = <<>> THEN <<>>
    ELSE IF Len(tokens) = 1 THEN tokens[1]
    ELSE tokens[1] \o <<sep>> \o Join(Tail(tokens), sep)

\* a well-formed record: path, one blank, the package list, newline
Rec(path, tokens) == path \o <<" ">> \o Join(tokens, ",") \o <<"\n">>

LineSet ==
    { <<"\n">>,                                             \* blank line
      <<" ", "\t", "\n">>,                                  \* whitespace only
      <<"p", "\n">>,                                        \* one field
      \* blanks and a tab around the fields; the path and a third field
      \* spell a package name
      <<" ", " ", "a", "\t", " ", "b", ",", "a", " ", "a", "\n">>,
      Rec(<<"p">>, << <<"a">>, <<"a">> >>),                 \* a package twice
      Rec(<<"p">>, << <<"b">>, <<>> >>),                    \* trailing comma
      Rec(<<"p">>, << <<>>, <<>>, <<"c", "d">> >>),         \* leading and doubled comma
      Rec(<<"p">>, << <<"c">>, <<"d">>, <<"e">>, <<"f">>, <<"g">>, <<"h">> >>),
      Rec(<<"p">>, << <<"i">>, <<"j">>, <<"k">>, <<"l">>, <<"a">>, <<"b">> >>),
      <<"p", " ", "l">> }                                   \* no newline at the end

Files == UNION {[1..n -> LineSet] : n \in 0..MaxLines}

ParseIdle ==
    /\ pc = "idle"
    /\ idx = 0
    /\ package_file_count = Counter
    /\ top_packages = <<>>
    /\ returned = <<>>

MainIdle ==
    /\ architecture = <<>>
    /\ architectures = <<>>
    /\ mpc = "idle"
    /\ disk = {}
    /\ written = {}
    /\ stages = <<>>
    /\ pending = FALSE
    /\ exit_status = -1

Init ==
    /\ file \in Files
    /\ ParseIdle
    /\ MainIdle

Next == Call \/ ReadLine \/ Return

Spec == Init /\ [][Next]_vars

---------------------------------------------------------------------------
(* What the claims speak of, read off the characters of the file *)

\* positions where a whitespace-separated field starts
FieldStarts(line) ==
    {i \in 1..Len(line) :
        line[i] \notin Whitespace /\ (i = 1 \/ line[i - 1] \in Whitespace)}

NumFields(line) == Cardinality(FieldStarts(line))

IsShort(line) == NumFields(line) < 2

\* the second whitespace-separated field of a line that has one
SecondField(line) ==
    LET s == CHOOSE i \in FieldStarts(line) :
                 Cardinality({k \in FieldStarts(line) : k < i}) = 1
        e == CHOOSE j \in s..Len(line) :
                 /\ j = Len(line) \/ line[j + 1] \in Whitespace
                 /\ \A k \in s..j : line[k] \notin Whitespace
    IN SubSeq(line, s, e)

\* positions of a field where a comma-separated token starts
TokenStarts(field) ==
    {i \in 1..(Len(field) + 1) : i = 1 \/ field[i - 1] = ","}

\* the token that starts at position i: up to the next comma or the end
TokenAt(field, i) ==
    LET e == CHOOSE j \in (i - 1)..Len(field) :
                 /\ j = Len(field) \/ field[j + 1] = ","
                 /\ \A k \in i..j : field[k] # ","
    IN SubSeq(field, i, e)

\* where token p occurs in a field: the positions its copies start at
OccurrencesIn(p, field) == {i \in TokenStarts(field) : TokenAt(field, i) = p}

TokensIn(field) == {TokenAt(field, i) : i \in TokenStarts(field)}

\* where token p occurs on a line: in its second field, if it has one
OccurrencesOn(p, line) ==
    IF IsShort(line) THEN {}
    ELSE UNION {OccurrencesIn(p, field) : field \in {SecondField(line)}}

TokensOn(line) ==
    IF IsShort(line) THEN {}
    ELSE UNION {TokensIn(field) : field \in {SecondField(line)}}

RECURSIVE Occurrences(_, _)
Occurrences(p, lines) ==
    IF lines = <<>> THEN 0
    ELSE Cardinality(OccurrencesOn(p, Head(lines))) + Occurrences(p, Tail(lines))

Seen(lines) == UNION {TokensOn(lines[k]) : k \in 1..Len(lines)}

\* the least position of a set of positions
Least(positions) == CHOOSE a \in positions : \A b \in positions : a <= b

\* the first occurrence of a seen token: <<line number, position on the line>>
FirstOccurrence(p, lines) ==
    LET k == Least({n \in 1..Len(lines) : OccurrencesOn(p, lines[n]) # {}})
    IN <<k, Least(OccurrencesOn(p, lines[k]))>>

Earlier(x, y) == x[1] < y[1] \/ (x[1] = y[1] /\ x[2] < y[2])

Min(a, b) == IF a < b THEN a ELSE b

ResultKeys == {top_packages[i][1] : i \in 1..Len(top_packages)}

---------------------------------------------------------------------------
(* Claims on parse_contents_file *)

\* C1: every returned pair (p, c) has c equal to the number of occurrences of
\* token p in the comma-split second field, summed over the lines with at
\* least two fields; repeats on one line all count, other fields add nothing.
CountsAreOccurrences ==
    pc = "returned" =>
        \A i \in 1..Len(top_packages) :
            top_packages[i][2] = Occurrences(top_packages[i][1], file)

\* a returned pair counted 3 or more, two of them from one line, in a file
\* that also has a line with a third field
CountsAreOccurrencesWitness ==
    /\ pc = "returned"
    /\ \E i \in 1..Len(top_packages) :
           /\ top_packages[i][2] >= 3
           /\ \E k \in 1..Len(file) :
                  Cardinality(OccurrencesOn(top_packages[i][1], file[k])) = 2
    /\ \E k \in 1..Len(file) : NumFields(file[k]) = 3

\* C2: the returned list has length min(10, number of distinct tokens seen on
\* lines with at least two fields); no such line, or no line, gives <<>>.
LengthIsMinTenDistinct ==
    pc = "returned" =>
        Len(top_packages) = Min(10, Cardinality(Seen(file)))

\* more than ten distinct tokens were seen and ten were returned
LengthIsMinTenDistinctWitness ==
    /\ pc = "returned"
    /\ Cardinality(Seen(file)) > 10
    /\ Len(top_packages) = 10

\* C3: the counts of the returned list are non-increasing.
CountsNonIncreasing ==
    pc = "returned" =>
        \A i, j \in 1..Len(top_packages) :
            i < j => top_packages[i][2] >= top_packages[j][2]

\* a returned list whose first inserted token is not the most frequent one
CountsNonIncreasingWitness ==
    /\ pc = "returned"
    /\ Len(top_packages) >= 3
    /\ top_packages[1][2] > top_packages[Len(top_packages)][2]
    /\ top_packages[1] # package_file_count[1]

\* C4: no token absent from the result has a count greater than that of an
\* entry of the result, and no token is in the result twice.
HoldsHighestCounts ==
    pc = "returned" =>
        /\ \A p \in Seen(file) \ ResultKeys :
               \A i \in 1..Len(top_packages) :
                   Occurrences(p, file) <= top_packages[i][2]
        /\ \A i, j \in 1..Len(top_packages) :
               top_packages[i][1] = top_packages[j][1] => i = j

\* a token first seen after ten others is in the result, with a count above
\* that of a token left out
HoldsHighestCountsWitness ==
    /\ pc = "returned"
    /\ Seen(file) \ ResultKeys # {}
    /\ Len(package_file_count) > 10
    /\ \E n \in 11..Len(package_file_count) :
           /\ package_file_count[n][1] \in ResultKeys
           /\ \E p \in Seen(file) \ ResultKeys :
                  Occurrences(p, file) < package_file_count[n][2]

\* C5: of two tokens of the result with equal counts the one first met
\* earlier in the file ranks first, and of two tokens with equal counts, one
\* kept and one cut, the kept one was first met earlier.
TiesByFirstOccurrence ==
    pc = "returned" =>
        \A first \in {[p \in Seen(file) |-> FirstOccurrence(p, file)]} :
        \A count \in {[p \in Seen(file) |-> Occurrences(p, file)]} :
           /\ ResultKeys \subseteq Seen(file)
           /\ \A i, j \in 1..Len(top_packages) :
                  (i < j /\ top_packages[i][2] = top_packages[j][2]) =>
                      Earlier(first[top_packages[i][1]], first[top_packages[j][1]])
           /\ \A p \in Seen(file) \ ResultKeys :
                  \A i \in 1..Len(top_packages) :
                      top_packages[i][2] = count[p] =>
                          Earlier(first[top_packages[i][1]], first[p])

\* equal counts straddle the cut, and two tied entries of the result were
\* first met on the same line
TiesByFirstOccurrenceWitness ==
    /\ pc = "returned"
    /\ \E p \in Seen(file) \ ResultKeys :
           Occurrences(p, file) = top_packages[Len(top_packages)][2]
    /\ \E i, j \in 1..Len(top_packages) :
           /\ i < j
           /\ top_packages[i][2] = top_packages[j][2]
           /\ FirstOccurrence(top_packages[i][1], file)[1]
                  = FirstOccurrence(top_packages[j][1], file)[1]

\* C6: lines with fewer than two fields raise no error and contribute
\* nothing: the list returned for a file is the list returned for the file
\* without any one of its short lines, order included (which is also the
\* insertion of that line into the shorter file).
ShortLinesContributeNothing ==
    /\ pc # "raised"
    /\ pc = "returned" =>
           \A k \in 1..Len(file) :
               IsShort(file[k]) => top_packages = parse_contents_file(RemoveAt(file, k))

\* a file with a one-field line between records that tie, returned
ShortLinesContributeNothingWitness ==
    /\ pc = "returned"
    /\ Len(file) = 3
    /\ NumFields(file[2]) = 1
    /\ ~IsShort(file[1])
    /\ ~IsShort(file[3])
    /\ Len(top_packages) >= 2
    /\ top_packages[1][2] = top_packages[2][2]

\* C8: two calls on the same file return the same list, element for element;
\* the second call's result is what a first call returns.
CallsAgree ==
    \A i, j \in 1..Len(returned) : returned[i] = returned[j]

\* a second call has returned a list that is not empty
CallsAgreeWitness ==
    /\ pc = "returned"
    /\ Len(returned) = 2
    /\ returned[2] # <<>>

\* C9: each empty token of a comma split adds 1 to the count of the package
\* "", and "" is in the result unless ten entries with counts at least as
\* high are.
EmptyTokenIsAPackage ==
    pc = "returned" =>
        /\ Get(package_file_count, <<>>) = Occurrences(<<>>, file)
        /\ Occurrences(<<>>, file) > 0 =>
               \/ \E i \in 1..Len(top_packages) :
                      top_packages[i] = <<<<>>, Occurrences(<<>>, file)>>
               \/ /\ Len(top_packages) = 10
                  /\ \A i \in 1..Len(top_packages) :
                         top_packages[i][2] >= Occurrences(<<>>, file)

\* "" heads the result with the count of a trailing, a leading and a
\* doubled comma
EmptyTokenIsAPackageWitness ==
    /\ pc = "returned"
    /\ Len(top_packages) >= 2
    /\ top_packages[1] = <<<<>>, 3>>
    /\ top_packages[1][2] > top_packages[2][2]

---------------------------------------------------------------------------
(* get_supported_architectures *)

Range(s) == {s[i] : i \in 1..Len(s)}

\* str.startswith(prefix)
StartsWith(s, prefix) ==
    Len(s) >= Len(prefix) /\ SubSeq(s, 1, Len(prefix)) = prefix

\* str.rstrip('/')
RECURSIVE RStripSlash(_)
RStripSlash(s) ==
    IF s # <<>> /\ s[Len(s)] = "/"
    THEN RStripSlash(SubSeq(s, 1, Len(s) - 1))
    ELSE s

BinaryPrefix == <<"b", "i", "n", "a", "r", "y", "-">>

All == <<"a", "l", "l">>

\* href.split('-')[1].rstrip('/')
ArchOf(href) == RStripSlash(Item(SplitSep(href, "-"), 1))

\* the loop over the page's <a> elements
RECURSIVE CollectArchitectures(_, _)
CollectArchitectures(links, acc) ==
    IF links = <<>> THEN acc
    ELSE LET href == Head(links).href
         IN CollectArchitectures(
                Tail(links),
                IF StartsWith(href, BinaryPrefix) /\ ArchOf(href) # All
                THEN Append(acc, ArchOf(href))
                ELSE acc)

\* link.get('href') is None for some <a>: None.startswith raises AttributeError,
\* which the except clause (requests.RequestException) does not catch
LinksRaise(links) == \E i \in 1..Len(links) : ~links[i].has_href

---------------------------------------------------------------------------
(* The inputs of main *)

Amd64 == <<"a", "m", "d", "6", "4">>

Arm64 == <<"a", "r", "m", "6", "4">>

Mips == <<"m", "i", "p", "s">>

Args == {Amd64, Arm64, Mips, All}

Link(href) == [has_href |-> TRUE, href |-> href]

Anchor == [has_href |-> FALSE, href |-> <<>>]

Dir(name) == Link(BinaryPrefix \o name \o <<"/">>)

\* the directory listings the mirror may serve
Pages ==
    { <<>>,
      << Link(<<".", ".", "/">>), Dir(All), Dir(Amd64), Dir(Arm64),
         Link(<<"s", "o", "u", "r", "c", "e", "/">>) >>,
      << Dir(All), Link(BinaryPrefix \o Arm64 \o <<"-", "x", "/", "/">>) >>,
      << Dir(All) >>,
      << Anchor, Dir(Amd64) >> }

\* destination and decompressed_file
FileNames == {"Contents.gz", "Contents"}

---------------------------------------------------------------------------
(* main *)

\* a validation that lets every architecture through when the list is empty
SupportedOrNoList(arch, archs) == archs = <<>> \/ arch \in Range(archs)

\* architecture in architectures
Supported(arch, archs) == arch \in Range(archs)

\* a clean-up that removes the download only
RemoveDownload(files) == files \ {"Contents.gz"}

\* the finally block: each of the two files is removed if it exists
RemoveFiles(files) == files \ {"Contents.gz", "Contents"}

\* sys.exit(message), or an uncaught exception: exit status 1
Exit(status) ==
    /\ mpc' = "exited"
    /\ exit_status' = status

\* architectures = get_supported_architectures(base_url)
get_supported_architectures ==
    /\ mpc = "start"
    /\ \/ /\ architectures' = <<>>           \* RequestException: return []
          /\ stages' = Append(stages, <<"get_supported_architectures", "failed">>)
          /\ mpc' = "validate"
          /\ UNCHANGED exit_status
       \/ \E page \in Pages :
              IF LinksRaise(page)
              THEN /\ stages' = Append(stages, <<"get_supported_architectures", "raised">>)
                   /\ Exit(1)
                   /\ UNCHANGED architectures
              ELSE /\ architectures' = CollectArchitectures(page, <<>>)
                   /\ stages' = Append(stages, <<"get_supported_architectures", "returned">>)
                   /\ mpc' = "validate"
                   /\ UNCHANGED exit_status
    /\ UNCHANGED <<architecture, disk, written, pending, parseVars>>

\* if architecture not in architectures: sys.exit(...)
Validate ==
    /\ mpc = "validate"
    /\ IF Supported(architecture, architectures)
       THEN mpc' = "download" /\ UNCHANGED exit_status
       ELSE Exit(1)
    /\ UNCHANGED <<architecture, architectures, disk, written, stages, pending, parseVars>>

\* if not download_file(url, destination): sys.exit(...)
download_file ==
    /\ mpc = "download"
    /\ \/ /\ stages' = Append(stages, <<"download_file", "True">>)
          /\ disk' = disk \cup {"Contents.gz"}
          /\ written' = written \cup {"Contents.gz"}
          /\ mpc' = "decompress"
          /\ UNCHANGED exit_status
       \/ /\ stages' = Append(stages, <<"download_file", "False">>)
          /\ \/ UNCHANGED <<disk, written>>             \* the request failed
             \/ /\ disk' = disk \cup {"Contents.gz"}     \* the stream broke
                /\ written' = written \cup {"Contents.gz"}
          /\ Exit(1)
       \/ /\ stages' = Append(stages, <<"download_file", "raised">>)
          /\ UNCHANGED <<disk, written>>                 \* open() raised OSError
          /\ Exit(1)
    /\ UNCHANGED <<architecture, architectures, pending, parseVars>>

\* if not decompress_gzip(destination): sys.exit(...)
decompress_gzip ==
    /\ mpc = "decompress"
    /\ \/ /\ stages' = Append(stages, <<"decompress_gzip", "True">>)
          /\ disk' = disk \cup {"Contents"}
          /\ written' = written \cup {"Contents"}
          /\ mpc' = "analyze"
          /\ UNCHANGED exit_status
       \/ /\ stages' = Append(stages, <<"decompress_gzip", "False">>)
          /\ \/ UNCHANGED <<disk, written>>             \* an open() failed
             \/ /\ disk' = disk \cup {"Contents"}        \* f_in.read() failed
                /\ written' = written \cup {"Contents"}
          /\ Exit(1)
    /\ UNCHANGED <<architecture, architectures, pending, parseVars>>

\* try: analyze_data(decompressed_file)
analyze_data ==
    /\ mpc = "analyze"
    /\ \E raised \in BOOLEAN :
           /\ pending' = raised
           /\ stages' = Append(stages,
                  <<"analyze_data", IF raised THEN "raised" ELSE "returned">>)
    /\ mpc' = "finally"
    /\ UNCHANGED <<architecture, architectures, disk, written, exit_status, parseVars>>

\* finally: remove the downloaded and the decompressed file
CleanUp ==
    /\ mpc = "finally"
    /\ disk' = RemoveFiles(disk)
    /\ stages' = Append(stages, <<"cleanup", "done">>)
    /\ Exit(IF pending THEN 1 ELSE 0)
    /\ UNCHANGED <<architecture, architectures, written, pending, parseVars>>

MainInit ==
    /\ file = <<>>
    /\ ParseIdle
    /\ architecture \in Args
    /\ architectures = <<>>
    /\ mpc = "start"
    /\ disk \in SUBSET FileNames
    /\ written = {}
    /\ stages = <<>>
    /\ pending = FALSE
    /\ exit_status = -1

MainNext ==
    \/ get_supported_architectures
    \/ Validate
    \/ download_file
    \/ decompress_gzip
    \/ analyze_data
    \/ CleanUp

MainSpec == MainInit /\ [][MainNext]_vars

---------------------------------------------------------------------------
(* Claims on main *)

Ran(stage) == \E i \in 1..Len(stages) : stages[i][1] = stage

Gave(stage, result) == \E i \in 1..Len(stages) : stages[i] = <<stage, result>>

Validated ==
    /\ mpc \notin {"start", "validate"}
    /\ ~Gave("get_supported_architectures", "raised")

\* C7: analyze_data is entered only after validation, download and
\* decompression have succeeded, in that order; an architecture not in the
\* scraped list (an empty list after a failed scrape included), a False from
\* download_file or a False from decompress_gzip ends the run with a
\* non-zero exit status and no later stage.
AnalysisOnlyAfterSuccess ==
    /\ Ran("analyze_data") =>
           /\ Len(stages) >= 4
           /\ stages[1] = <<"get_supported_architectures", "returned">>
           /\ \E i \in 1..Len(architectures) : architectures[i] = architecture
           /\ stages[2] = <<"download_file", "True">>
           /\ stages[3] = <<"decompress_gzip", "True">>
           /\ stages[4][1] = "analyze_data"
    /\ (Validated /\ architecture \notin {architectures[i] : i \in 1..Len(architectures)}) =>
           mpc = "exited" /\ exit_status # 0 /\ Len(stages) = 1
    /\ Gave("download_file", "False") =>
           mpc = "exited" /\ exit_status # 0 /\ Len(stages) = 2
    /\ Gave("decompress_gzip", "False") =>
           mpc = "exited" /\ exit_status # 0 /\ Len(stages) = 3

\* the analysis is about to be entered for the second architecture listed
AnalysisOnlyAfterSuccessWitness ==
    /\ mpc = "analyze"
    /\ Len(architectures) = 2
    /\ architectures[2] = architecture
    /\ Gave("decompress_gzip", "True")

\* C10: the clean-up runs exactly when analyze_data was called; then, at
\* the end of the run, neither file exists, whether analyze_data returned or
\* raised; a run that ends at validation, download or decompression runs no
\* clean-up and leaves on disk what download_file or decompress_gzip wrote.
CleanUpIffAnalysed ==
    /\ Ran("cleanup") => Ran("analyze_data")
    /\ mpc = "exited" =>
           IF Ran("analyze_data")
           THEN Ran("cleanup") /\ disk \cap FileNames = {}
           ELSE ~Ran("cleanup") /\ written \subseteq disk

\* analyze_data raised, and the run ended with both files removed
CleanUpIffAnalysedWitness ==
    /\ mpc = "exited"
    /\ Gave("analyze_data", "raised")
    /\ written = FileNames
    /\ disk = {}
    /\ exit_status = 1

====
